---------------------------- MODULE Spec2Model ----------------------------
(***************************************************************************)
(* A model of the Blackout ("Oh, Hell") kernel: scripts/blackout.py (class *)
(* Blackout, generator circGen) and scripts/cards.py (Suit, Rank, Card).   *)
(*                                                                         *)
(* One action per public method of Blackout.  A method that raises keeps   *)
(* the assignments it made before the raise; the exception (or the value   *)
(* returned) is recorded in ret, the call itself in call.  An attribute    *)
(* that may not exist yet is a sequence of length <= 1: <<>> is "no such   *)
(* attribute", and reading it raises AttributeError.  The source is        *)
(* Python 2 ("52 / numPlayers" is integer division, range() is a list).    *)
(***************************************************************************)
EXTENDS Integers, Sequences, FiniteSets, TLC

\* ------------------------------------------------------------- bounds
\* Largest number of players a game is constructed with.
MaxPlayers == 4
\* random.shuffle is modelled by the cuts 0..MaxCut of the ordered list.
MaxCut == 2
\* Largest number of Suit objects whose trump (or led) flag a test sets.
MaxFlagged == 2
\* Largest number of cards in a trick handed to the comparison.
MaxTrick == 3
\* A trick handed to the comparison holds cards of the MaxTrickRank lowest ranks.
MaxTrickRank == 2
\* Largest number of cards in a hand of a round that is in play.
MaxHand == 2
\* Largest total and largest start handed to circGen.
MaxTotal == 8
MaxStart == 12

\* ------------------------------------------------------ cards.py: types
\* The four Suit objects, in the order the deck is built (blackout.py:92).
SuitOrder == <<"Spade", "Heart", "Club", "Diamond">>

Suits == {SuitOrder[i] : i \in 1..4}

\* Rank.rank is an integer 2..14 (J 11, Q 12, K 13, A 14).
Ranks == 2..14

\* Card(suit, rank): the two stored fields.
Card(suit, rank) == [Suit |-> suit, Rank |-> rank]

Cards == {Card(s, r) : s \in Suits, r \in Ranks}

\* self.Deck: 52 Card objects, suit-major, addressed by the integers 0..51.
Deck == [i \in 0..51 |-> Card(SuitOrder[(i \div 13) + 1], (i % 13) + 2)]

\* Rank.__gt__ taking equal ranks for greater.
RankGtOrEqual(self, other) == self >= other

\* Rank.__gt__
RankGt(self, other) == self > other

\* ----------------------------------------------------------- the state
VARIABLES
    numPlayers,     \* self.numPlayers
    maxTricks,      \* self.maxTricks (after the constructor's clamp)
    Round,          \* self.Round
    Dealer,         \* self.Dealer
    Bidder,         \* self.Bidder
    Current,        \* self.Current
    Leader,         \* self.Leader
    numTricks,      \* self.numTricks
    currentTrick,   \* self.currentTrick: player -> None or an integer
    Player,         \* self.Player: player -> [hand, bid]; bid is the optional key 'bid'
    trump,          \* self.trump: optional attribute, a suit
    ledSuit,        \* self.ledSuit: optional attribute, a suit
    TrumpCard,      \* self.TrumpCard: optional attribute, a Card
    suitTrump,      \* Suit.<s>.trump, the flag carried by each Suit object
    suitLed,        \* Suit.<s>.led
    cmpSelf,        \* operands of the last Card comparison (<<>>: none yet)
    cmpOther,
    call,           \* the last call made: <<method, arguments...>>
    ret             \* what it returned ("None", "True", "False") or raised

gameVars == <<numPlayers, maxTricks, Round, Dealer, Bidder, Current, Leader,
              numTricks, currentTrick, Player, trump, ledSuit, TrumpCard>>
suitVars == <<suitTrump, suitLed>>
cmpVars == <<cmpSelf, cmpOther>>
vars == <<gameVars, suitVars, cmpVars, call, ret>>

\* Python's None inside self.currentTrick, whose other entries are integers >= 0.
None == -1

\* Attributes read by the class that no statement of it ever assigns or defines.
led == <<>>
numTrics == <<>>
clearRound == <<>>

HasAttr(a) == a # <<>>

\* ---------------------------------------------------- blackout.py: helpers
_circInc(num) == (num + 1) % numPlayers

\* A circular range that subtracts total once instead of reducing modulo total.
circGenOneLap(total, start) ==
    [ii \in 1..total |->
        IF (ii - 1) + start < total THEN (ii - 1) + start ELSE (ii - 1) + start - total]

\* The values circGen(total, start) yields, in order.
circGen(total, start) == [ii \in 1..total |-> ((ii - 1) + (start % total)) % total]

\* __init__: the clamp of maxTricks ("52 / numPlayers" is integer division).
ClampMaxTricks(n, m) == IF n * m > 52 THEN 52 \div n ELSE m

\* __init__: list(range(numPlayers)) with entries 0 and -1 set to None.
InitTrick(n) == [p \in 0..(n - 1) |-> IF p = 0 \/ p = n - 1 THEN None ELSE p]

\* __init__: every player's dictionary; there is no key 'bid' yet.
InitPlayer(n) ==
    [p \in 0..(n - 1) |-> [hand |-> <<>>, bid |-> <<>>, tricks |-> <<>>, points |-> <<>>]]

\* The state after Blackout(n, m), 0 < m < 14.
Construct(n, m) ==
    /\ numPlayers = n
    /\ maxTricks = ClampMaxTricks(n, m)
    /\ Round = 1
    /\ Dealer = 0
    /\ Bidder = 1
    /\ Current = 1
    /\ Leader = 1
    /\ numTricks = 1
    /\ currentTrick = InitTrick(n)
    /\ Player = InitPlayer(n)
    /\ trump = <<>>
    /\ ledSuit = <<>>
    /\ TrumpCard = <<>>

NoFlags == [s \in Suits |-> FALSE]

Init ==
    /\ \E n \in 2..MaxPlayers, m \in 1..13 :
          /\ Construct(n, m)
          /\ call = <<"__init__", n, m>>
    /\ suitTrump = NoFlags
    /\ suitLed = NoFlags
    /\ cmpSelf = <<>>
    /\ cmpOther = <<>>
    /\ ret = "None"

\* -------------------------------------------------------- Blackout.Deal
\* The lists random.shuffle can leave in "shuffled": range(51) holds the 51
\* integers 0..50; entry i of the Python list is entry i + 1 here.
Shuffles == {[i \in 1..51 |-> (k + i - 1) % 51] : k \in 0..MaxCut}

\* The players the dealing loop appends to, in order: circGen is called with
\* (self.Dealer + 1, self.numPlayers) once per trick.
DealOrder ==
    LET circuit == circGen(Dealer + 1, numPlayers)
    IN  [k \in 1..(numTricks * Len(circuit)) |-> circuit[((k - 1) % Len(circuit)) + 1]]

\* The cards appended to player p's hand by the first m appends of the loop.
Appended(p, order, shuffled, m) ==
    LET at == SelectSeq([k \in 1..m |-> k], LAMBDA k : order[k] = p)
    IN  [j \in 1..Len(at) |-> shuffled[at[j]]]

\* The hands after the first m appends.
DealtHands(order, shuffled, m) ==
    [p \in DOMAIN Player |->
        [Player[p] EXCEPT !.hand = Player[p].hand \o Appended(p, order, shuffled, m)]]

Deal ==
    /\ call' = <<"Deal">>
    /\ \E shuffled \in Shuffles :
          IF ~HasAttr(clearRound)
          THEN \* self.clearRound(): the class defines no such method
               /\ ret' = "AttributeError"
               /\ UNCHANGED <<Player, TrumpCard, trump, suitTrump>>
          ELSE LET order == DealOrder
                   fit == IF Len(order) < Len(shuffled) THEN Len(order) ELSE Len(shuffled)
               IN  /\ Player' = DealtHands(order, shuffled, fit)
                   /\ IF Len(order) >= Len(shuffled)
                      THEN \* shuffled[ index ] past the end of the list
                           /\ ret' = "IndexError"
                           /\ UNCHANGED <<TrumpCard, trump, suitTrump>>
                      ELSE /\ TrumpCard' = <<Deck[shuffled[Len(order) + 1]]>>
                           /\ trump' = <<TrumpCard'[1].Suit>>
                           /\ suitTrump' = [suitTrump EXCEPT ![trump'[1]] = TRUE]
                           /\ ret' = "None"
    /\ UNCHANGED <<numPlayers, maxTricks, Round, Dealer, Bidder, Current, Leader,
                   numTricks, currentTrick, ledSuit, suitLed, cmpVars>>

\* --------------------------------------------------------- Blackout.Bid
RECURSIVE SumBids(_, _)
\* totalBids: the sum of Player[ii]['bid'] for ii in range(n).
SumBids(players, n) ==
    IF n = 0 THEN 0 ELSE players[n - 1].bid[1] + SumBids(players, n - 1)

\* The dealer's branch of Bid, entered with the bid already stored: the
\* exception it raises, "False" if it rejects the bid, "pass" if it falls through.
DealerCheck(players) ==
    IF \E ii \in DOMAIN players : ~HasAttr(players[ii].bid)
    THEN "KeyError"             \* Player[ ii ][ 'bid' ] of a player without the key
    ELSE IF ~HasAttr(numTrics)
    THEN "AttributeError"       \* self.numTrics
    ELSE IF SumBids(players, numPlayers) = numTrics[1]
    THEN "False"
    ELSE "pass"

Bid(player, bid) ==
    /\ call' = <<"Bid", player, bid>>
    /\ IF ~(0 <= player /\ player < numPlayers)
       THEN ret' = "AssertionError" /\ UNCHANGED <<Player, Bidder>>
       ELSE IF bid < 0 \/ bid > numTricks
       THEN ret' = "False" /\ UNCHANGED <<Player, Bidder>>
       ELSE IF player # Bidder
       THEN ret' = "AssertionError" /\ UNCHANGED <<Player, Bidder>>
       ELSE LET placed == [Player EXCEPT ![player].bid = <<bid>>]
                check == IF Bidder = Dealer THEN DealerCheck(placed) ELSE "pass"
            IN  /\ Player' = placed
                /\ IF check # "pass"
                   THEN ret' = check /\ UNCHANGED Bidder
                   ELSE /\ Bidder' = _circInc(Bidder)
                        /\ ret' = IF Bidder' # Leader THEN "True" ELSE "AssertionError"
    /\ UNCHANGED <<numPlayers, maxTricks, Round, Dealer, Current, Leader, numTricks,
                   currentTrick, trump, ledSuit, TrumpCard, suitVars, cmpVars>>

\* -------------------------------------------------------- Blackout.Move
\* A pop that drops the last entry of the list whatever card_index is.
PopLast(hand, card_index) == SubSeq(hand, 1, Len(hand) - 1)

\* list.pop( card_index ): the list without its entry card_index (0-based).
Pop(hand, card_index) ==
    [j \in 1..(Len(hand) - 1) |-> IF j <= card_index THEN hand[j] ELSE hand[j + 1]]

\* Move with the bounds test of the card index answered by False, not an assertion.
MoveSoft(player, card_index) ==
    /\ call' = <<"Move", player, card_index>>
    /\ IF player # Current
       THEN ret' = "AssertionError"
            /\ UNCHANGED <<Current, currentTrick, Player, ledSuit, suitLed>>
       ELSE IF Player[player].hand = <<>>
       THEN ret' = "AssertionError"
            /\ UNCHANGED <<Current, currentTrick, Player, ledSuit, suitLed>>
       ELSE IF ~(card_index >= 0 /\ card_index < Len(Player[player].hand))
       THEN ret' = "False"
            /\ UNCHANGED <<Current, currentTrick, Player, ledSuit, suitLed>>
       ELSE LET card == Deck[Player[player].hand[card_index + 1]]
                accept == /\ Current' = _circInc(Current)
                          /\ currentTrick' =
                                [currentTrick EXCEPT ![player] = Player[player].hand[card_index + 1]]
                          /\ Player' =
                                [Player EXCEPT ![player].hand = Pop(Player[player].hand, card_index)]
                          /\ ret' = "True"
            IN  IF player = Leader
                THEN IF currentTrick[Leader] # None
                     THEN ret' = "AssertionError"
                          /\ UNCHANGED <<Current, currentTrick, Player, ledSuit, suitLed>>
                     ELSE /\ suitLed' = [suitLed EXCEPT ![card.Suit] = TRUE]
                          /\ ledSuit' = <<card.Suit>>
                          /\ accept
                ELSE IF ~HasAttr(ledSuit)
                THEN \* self.ledSuit before any lead
                     ret' = "AttributeError"
                     /\ UNCHANGED <<Current, currentTrick, Player, ledSuit, suitLed>>
                ELSE IF card.Suit # ledSuit[1]
                THEN \* item.suit: the hand holds integers, and it is not empty
                     ret' = "AttributeError"
                     /\ UNCHANGED <<Current, currentTrick, Player, ledSuit, suitLed>>
                ELSE accept /\ UNCHANGED <<ledSuit, suitLed>>
    /\ UNCHANGED <<numPlayers, maxTricks, Round, Dealer, Bidder, Leader, numTricks,
                   trump, TrumpCard, suitTrump, cmpVars>>

\* Move without the assertion that the leader has no card in the trick yet.
MoveLeadAgain(player, card_index) ==
    /\ call' = <<"Move", player, card_index>>
    /\ IF player # Current
       THEN ret' = "AssertionError"
            /\ UNCHANGED <<Current, currentTrick, Player, ledSuit, suitLed>>
       ELSE IF Player[player].hand = <<>>
       THEN ret' = "AssertionError"
            /\ UNCHANGED <<Current, currentTrick, Player, ledSuit, suitLed>>
       ELSE IF ~(card_index >= 0 /\ card_index < Len(Player[player].hand))
       THEN ret' = "AssertionError"
            /\ UNCHANGED <<Current, currentTrick, Player, ledSuit, suitLed>>
       ELSE LET card == Deck[Player[player].hand[card_index + 1]]
                accept == /\ Current' = _circInc(Current)
                          /\ currentTrick' =
                                [currentTrick EXCEPT ![player] = Player[player].hand[card_index + 1]]
                          /\ Player' =
                                [Player EXCEPT ![player].hand = Pop(Player[player].hand, card_index)]
                          /\ ret' = "True"
            IN  IF player = Leader
                THEN IF FALSE
                     THEN ret' = "AssertionError"
                          /\ UNCHANGED <<Current, currentTrick, Player, ledSuit, suitLed>>
                     ELSE /\ suitLed' = [suitLed EXCEPT ![card.Suit] = TRUE]
                          /\ ledSuit' = <<card.Suit>>
                          /\ accept
                ELSE IF ~HasAttr(ledSuit)
                THEN \* self.ledSuit before any lead
                     ret' = "AttributeError"
                     /\ UNCHANGED <<Current, currentTrick, Player, ledSuit, suitLed>>
                ELSE IF card.Suit # ledSuit[1]
                THEN \* item.suit: the hand holds integers, and it is not empty
                     ret' = "AttributeError"
                     /\ UNCHANGED <<Current, currentTrick, Player, ledSuit, suitLed>>
                ELSE accept /\ UNCHANGED <<ledSuit, suitLed>>
    /\ UNCHANGED <<numPlayers, maxTricks, Round, Dealer, Bidder, Leader, numTricks,
                   trump, TrumpCard, suitTrump, cmpVars>>

\* Move whose leader branch flags the suit but does not store it as the led suit.
MoveNoLed(player, card_index) ==
    /\ call' = <<"Move", player, card_index>>
    /\ IF player # Current
       THEN ret' = "AssertionError"
            /\ UNCHANGED <<Current, currentTrick, Player, ledSuit, suitLed>>
       ELSE IF Player[player].hand = <<>>
       THEN ret' = "AssertionError"
            /\ UNCHANGED <<Current, currentTrick, Player, ledSuit, suitLed>>
       ELSE IF ~(card_index >= 0 /\ card_index < Len(Player[player].hand))
       THEN ret' = "AssertionError"
            /\ UNCHANGED <<Current, currentTrick, Player, ledSuit, suitLed>>
       ELSE LET card == Deck[Player[player].hand[card_index + 1]]
                accept == /\ Current' = _circInc(Current)
                          /\ currentTrick' =
                                [currentTrick EXCEPT ![player] = Player[player].hand[card_index + 1]]
                          /\ Player' =
                                [Player EXCEPT ![player].hand = Pop(Player[player].hand, card_index)]
                          /\ ret' = "True"
            IN  IF player = Leader
                THEN IF currentTrick[Leader] # None
                     THEN ret' = "AssertionError"
                          /\ UNCHANGED <<Current, currentTrick, Player, ledSuit, suitLed>>
                     ELSE /\ suitLed' = [suitLed EXCEPT ![card.Suit] = TRUE]
                          /\ ledSuit' = ledSuit
                          /\ accept
                ELSE IF ~HasAttr(ledSuit)
                THEN \* self.ledSuit before any lead
                     ret' = "AttributeError"
                     /\ UNCHANGED <<Current, currentTrick, Player, ledSuit, suitLed>>
                ELSE IF card.Suit # ledSuit[1]
                THEN \* item.suit: the hand holds integers, and it is not empty
                     ret' = "AttributeError"
                     /\ UNCHANGED <<Current, currentTrick, Player, ledSuit, suitLed>>
                ELSE accept /\ UNCHANGED <<ledSuit, suitLed>>
    /\ UNCHANGED <<numPlayers, maxTricks, Round, Dealer, Bidder, Leader, numTricks,
                   trump, TrumpCard, suitTrump, cmpVars>>

Move(player, card_index) ==
    /\ call' = <<"Move", player, card_index>>
    /\ IF player # Current
       THEN ret' = "AssertionError"
            /\ UNCHANGED <<Current, currentTrick, Player, ledSuit, suitLed>>
       ELSE IF Player[player].hand = <<>>
       THEN ret' = "AssertionError"
            /\ UNCHANGED <<Current, currentTrick, Player, ledSuit, suitLed>>
       ELSE IF ~(card_index >= 0 /\ card_index < Len(Player[player].hand))
       THEN ret' = "AssertionError"
            /\ UNCHANGED <<Current, currentTrick, Player, ledSuit, suitLed>>
       ELSE LET card == Deck[Player[player].hand[card_index + 1]]
                accept == /\ Current' = _circInc(Current)
                          /\ currentTrick' =
                                [currentTrick EXCEPT ![player] = Player[player].hand[card_index + 1]]
                          /\ Player' =
                                [Player EXCEPT ![player].hand = Pop(Player[player].hand, card_index)]
                          /\ ret' = "True"
            IN  IF player = Leader
                THEN IF currentTrick[Leader] # None
                     THEN ret' = "AssertionError"
                          /\ UNCHANGED <<Current, currentTrick, Player, ledSuit, suitLed>>
                     ELSE /\ suitLed' = [suitLed EXCEPT ![card.Suit] = TRUE]
                          /\ ledSuit' = <<card.Suit>>
                          /\ accept
                ELSE IF ~HasAttr(ledSuit)
                THEN \* self.ledSuit before any lead
                     ret' = "AttributeError"
                     /\ UNCHANGED <<Current, currentTrick, Player, ledSuit, suitLed>>
                ELSE IF card.Suit # ledSuit[1]
                THEN \* item.suit: the hand holds integers, and it is not empty
                     ret' = "AttributeError"
                     /\ UNCHANGED <<Current, currentTrick, Player, ledSuit, suitLed>>
                ELSE accept /\ UNCHANGED <<ledSuit, suitLed>>
    /\ UNCHANGED <<numPlayers, maxTricks, Round, Dealer, Bidder, Leader, numTricks,
                   trump, TrumpCard, suitTrump, cmpVars>>

\* --------------------------------------------------- Blackout.postRound
\* The trick count of the round that follows, given the advanced round number.
NextNumTricks(round) == IF round > maxTricks THEN numTricks - 1 ELSE numTricks + 1

postRound ==
    /\ call' = <<"postRound">>
    /\ IF ~HasAttr(trump)
       THEN \* self.trump before any completed Deal
            /\ ret' = "AttributeError"
            /\ UNCHANGED <<suitTrump, suitLed, Player, Dealer, Leader, Bidder,
                           currentTrick, Round, numTricks>>
       ELSE /\ suitTrump' = [suitTrump EXCEPT ![trump[1]] = FALSE]
            /\ IF ~HasAttr(led)
               THEN \* self.led: the attribute Move sets is self.ledSuit
                    /\ ret' = "AttributeError"
                    /\ UNCHANGED <<suitLed, Player, Dealer, Leader, Bidder,
                                   currentTrick, Round, numTricks>>
               ELSE /\ suitLed' = [suitLed EXCEPT ![led[1]] = FALSE]
                    /\ Player' = [p \in DOMAIN Player |-> [Player[p] EXCEPT !.hand = <<>>]]
                    /\ Dealer' = _circInc(Dealer)
                    /\ Leader' = Dealer'
                    /\ Bidder' = Leader'
                    /\ currentTrick' = [currentTrick EXCEPT ![Leader'] = None]
                    /\ Round' = Round + 1
                    /\ numTricks' = NextNumTricks(Round')
                    /\ ret' = IF numTricks' # 0 THEN "None" ELSE "AssertionError"
    /\ UNCHANGED <<numPlayers, maxTricks, Current, trump, ledSuit, TrumpCard, cmpVars>>

\* One flag set: the flag setting in which suit s alone carries the flag.
OnlyFlag(s) == [x \in Suits |-> x = s]

\* --------------------------------------------------- Blackout.evalTrick
\* The method body is its docstring: it returns None and assigns nothing.
evalTrick ==
    /\ call' = <<"evalTrick">>
    /\ ret' = "None"
    /\ UNCHANGED <<gameVars, suitVars, cmpVars>>

\* ------------------------------------------------------ the game's steps
\* The arguments a caller passes: every seat and one illegal player ID, every
\* bid of the widest round and one on either side, every hand index and one
\* on either side.
PlayerArgs == 0..numPlayers
BidArgs == -1..(numTricks + 1)
IndexArgs == -1..numTricks

Next ==
    \/ Deal
    \/ \E player \in PlayerArgs, bid \in BidArgs : Bid(player, bid)
    \/ \E player \in PlayerArgs, card_index \in IndexArgs : Move(player, card_index)
    \/ evalTrick
    \/ postRound

Spec == Init /\ [][Next]_vars

\* ------------------------------------------------- a round that is in play
\* Orders of the 52 deck indices a shuffle can leave: a cut of the ordered
\* deck taken with a stride coprime to 52.
Strides == {1, 7, 17}
PlayShuffles ==
    {[i \in 1..52 |-> (k + (i - 1) * s) % 52] : k \in 0..MaxCut, s \in Strides}

\* The hand of player p when r cards each are handed out one at a time to the
\* n players, starting left of dealer d, from the front of shuffled.
HandOf(p, n, r, d, shuffled) ==
    LET order == circGen(n, d + 1)
        seat == CHOOSE k \in 1..n : order[k] = p
    IN  [c \in 1..r |-> shuffled[(c - 1) * n + seat]]

\* Round r of a game with its cards dealt and its bids placed, before the
\* first play: dealer and leader as r - 1 moves to the left leave them, the
\* trick as the constructor (round 1) or postRound (later rounds) leaves it,
\* the card after the hands turned up as trump.
InitPlay ==
    \E n \in 2..MaxPlayers, r \in 1..MaxHand, shuffled \in PlayShuffles :
       LET d == (r - 1) % n
           l == (d + 1) % n
       IN  /\ numPlayers = n
           /\ maxTricks = ClampMaxTricks(n, 7)
           /\ Round = r
           /\ Dealer = d
           /\ Leader = l
           /\ Bidder = Leader
           /\ Current = Leader
           /\ numTricks = r
           /\ currentTrick = IF r = 1 THEN InitTrick(n)
                              ELSE [InitTrick(n) EXCEPT ![Leader] = None, ![Dealer] = None]
           /\ Player = [p \in 0..(n - 1) |->
                          [InitPlayer(n)[p] EXCEPT !.hand = HandOf(p, n, r, d, shuffled),
                                                   !.bid = <<0>>]]
           /\ TrumpCard = <<Deck[shuffled[n * r + 1]]>>
           /\ trump = <<TrumpCard[1].Suit>>
           /\ ledSuit = <<>>
           /\ suitTrump = OnlyFlag(trump[1])
           /\ suitLed = NoFlags
           /\ cmpSelf = <<>>
           /\ cmpOther = <<>>
           /\ call = <<"Deal">>
           /\ ret = "None"

\* The calls of a round past its bidding.
NextPlay ==
    \/ Deal
    \/ \E player \in PlayerArgs, card_index \in IndexArgs : Move(player, card_index)
    \/ evalTrick
    \/ postRound

SpecPlay == InitPlay /\ [][NextPlay]_vars

\* ------------------------------------------------------- Card.__gt__
\* Card.__gt__ with the led test placed ahead of the trump test.
CardGtLedFirst(self, other) ==
    IF /\ self.Suit # other.Suit
       /\ \/ suitTrump[self.Suit] /\ suitTrump[other.Suit]
          \/ suitLed[self.Suit] /\ suitLed[other.Suit]
    THEN "AssertionError"
    ELSE IF self.Suit = other.Suit
    THEN IF RankGt(self.Rank, other.Rank) THEN "True" ELSE "False"
    ELSE IF suitLed[self.Suit] \/ suitLed[other.Suit]
    THEN IF suitLed[self.Suit] THEN "True" ELSE "False"
    ELSE IF suitTrump[self.Suit] \/ suitTrump[other.Suit]
    THEN IF suitTrump[self.Suit] THEN "True" ELSE "False"
    ELSE "False"

\* Card.__gt__ without the branch that gives the led suit precedence.
CardGtNoLed(self, other) ==
    IF /\ self.Suit # other.Suit
       /\ \/ suitTrump[self.Suit] /\ suitTrump[other.Suit]
          \/ suitLed[self.Suit] /\ suitLed[other.Suit]
    THEN "AssertionError"
    ELSE IF self.Suit = other.Suit
    THEN IF RankGt(self.Rank, other.Rank) THEN "True" ELSE "False"
    ELSE IF suitTrump[self.Suit] \/ suitTrump[other.Suit]
    THEN IF suitTrump[self.Suit] THEN "True" ELSE "False"
    ELSE "False"

\* "self > other" for two Card objects, under the flags the Suit objects carry.
CardGt(self, other) ==
    IF /\ self.Suit # other.Suit
       /\ \/ suitTrump[self.Suit] /\ suitTrump[other.Suit]
          \/ suitLed[self.Suit] /\ suitLed[other.Suit]
    THEN "AssertionError"
    ELSE IF self.Suit = other.Suit
    THEN IF RankGt(self.Rank, other.Rank) THEN "True" ELSE "False"
    ELSE IF suitTrump[self.Suit] \/ suitTrump[other.Suit]
    THEN IF suitTrump[self.Suit] THEN "True" ELSE "False"
    ELSE IF suitLed[self.Suit] \/ suitLed[other.Suit]
    THEN IF suitLed[self.Suit] THEN "True" ELSE "False"
    ELSE "False"

\* The flag settings a caller of the cards module can have made (the unit
\* test sets Suit.Club.trump and Suit.Spade.led directly).
FlagSettings == {f \in [Suits -> BOOLEAN] : Cardinality({s \in Suits : f[s]}) <= MaxFlagged}

\* Two cards and a flag setting, no comparison made yet.
InitCard ==
    /\ Construct(2, 7)
    /\ suitTrump \in FlagSettings
    /\ suitLed \in FlagSettings
    /\ \E a \in Cards : cmpSelf = <<a>>
    /\ \E b \in Cards : cmpOther = <<b>>
    /\ call = <<"import">>
    /\ ret = "None"

Compare ==
    /\ call' = <<"__gt__">>
    /\ ret' = CardGt(cmpSelf[1], cmpOther[1])
    /\ UNCHANGED <<gameVars, suitVars, cmpVars>>

SpecCard == InitCard /\ [][Compare]_vars

\* ------------------------------------------------------------- circGen
\* The module is imported; no generator has been run yet.
InitCirc ==
    /\ Construct(2, 7)
    /\ suitTrump = NoFlags
    /\ suitLed = NoFlags
    /\ cmpSelf = <<>>
    /\ cmpOther = <<>>
    /\ call = <<"import">>
    /\ ret = "None"

\* list( circGen( total, start ) ): the list of the values yielded, or the
\* exception the first next() raises.
ListCircGen(total, start) ==
    /\ call' = <<"circGen", total, start>>
    /\ ret' = IF ~(start > -1) THEN "AssertionError"
              ELSE IF total = 0 THEN "ZeroDivisionError"      \* start % total
              ELSE circGen(total, start)
    /\ UNCHANGED <<gameVars, suitVars, cmpVars>>

NextCirc == \E total \in 0..MaxTotal, start \in -1..MaxStart : ListCircGen(total, start)

SpecCirc == InitCirc /\ [][NextCirc]_vars

\* ------------------------------------- Card.__gt__ on the cards of a trick
\* The deck indices a drawn trick takes its cards from.
TrickDeck == {i \in 0..51 : i % 13 < MaxTrickRank}

\* A completed trick: every player of 0..n-1 has a distinct card recorded (the
\* players are seated in deck order of their cards; any of them may be the
\* leader), the suit of the leader's card carries the led flag, one suit the
\* trump flag.
InitTrickDone ==
    \E n \in 2..MaxTrick, t \in Suits :
       \E l \in 0..(n - 1) :
          /\ numPlayers = n
          /\ maxTricks = ClampMaxTricks(n, 7)
          /\ Round = 1
          /\ Dealer = 0
          /\ Bidder = 1
          /\ Current = l
          /\ Leader = l
          /\ numTricks = 1
          /\ currentTrick \in {f \in [0..(n - 1) -> TrickDeck] :
                                  \A p \in 1..(n - 1) : f[p - 1] < f[p]}
          /\ Player = InitPlayer(n)
          /\ trump = <<t>>
          /\ TrumpCard = <<Card(t, 14)>>
          /\ ledSuit = <<Deck[currentTrick[l]].Suit>>
          /\ suitTrump = OnlyFlag(t)
          /\ suitLed = OnlyFlag(ledSuit[1])
          /\ cmpSelf = <<>>
          /\ cmpOther = <<>>
          /\ call = <<"trick">>
          /\ ret = "None"

\* The card of player i compared with the card of player j.
CompareInTrick(i, j) ==
    /\ i # j
    /\ call' = <<"__gt__">>
    /\ cmpSelf' = <<Deck[currentTrick[i]]>>
    /\ cmpOther' = <<Deck[currentTrick[j]]>>
    /\ ret' = CardGt(cmpSelf'[1], cmpOther'[1])
    /\ UNCHANGED <<gameVars, suitVars>>

NextTrick == \E i \in DOMAIN currentTrick, j \in DOMAIN currentTrick : CompareInTrick(i, j)

SpecTrick == InitTrickDone /\ [][NextTrick]_vars

\* ======================================================== properties
\* What a property reads off a state or a step.
IsCall(method) == call[1] = method
Stepped(method) == call'[1] = method /\ call' # call

\* A player's stored bid, 0 when there is none.
BidOf(p) == IF HasAttr(Player[p].bid) THEN Player[p].bid[1] ELSE 0

RECURSIVE TotalBids(_)
TotalBids(n) == IF n = 0 THEN 0 ELSE BidOf(n - 1) + TotalBids(n - 1)

AllHaveBid == \A p \in DOMAIN Player : HasAttr(Player[p].bid)

\* The trick count of round r of a game whose maximum is M: 1..M, then M-1..1.
Schedule(M, r) == IF r <= M THEN r ELSE 2 * M - r

\* C1: once every player of the round has a bid placed, the bids do not add up
\* to the round's trick count (the dealer's hook).
C1_DealerHook == AllHaveBid => TotalBids(numPlayers) # numTricks

\* C3: each postRound moves to the next round of the schedule 1..M..1 and
\* returns normally, except the one after round 2M-1, which signals the end.
C3_Schedule ==
    [][Stepped("postRound") =>
          IF Round < 2 * maxTricks - 1
          THEN /\ ret' = "None"
               /\ Round' = Round + 1
               /\ numTricks' = Schedule(maxTricks, Round + 1)
          ELSE ret' = "AssertionError"]_vars

\* The bid (player, bid) is one the rules reject: out of range, or the dealer's
\* bid that makes the bids add up to the trick count.
RuleViolation(player, bid) ==
    \/ bid < 0 \/ bid > numTricks
    \/ /\ player = Dealer
       /\ TotalBids(numPlayers) - BidOf(player) + bid = numTricks

\* C4: a bid by the expected bidder that the rules reject returns False, and a
\* Bid that returns False leaves the game as it was.
C4_RejectedBidNoChange ==
    [][Stepped("Bid") =>
          /\ (call'[2] = Bidder /\ RuleViolation(call'[2], call'[3]))
                => ret' = "False"
          /\ (ret' = "False" \/ (call'[2] = Bidder /\ RuleViolation(call'[2], call'[3])))
                => UNCHANGED <<gameVars, suitVars>>]_vars

\* C5: a legal bid by the expected bidder who has not bid yet in the round is
\* accepted: all numPlayers bids of a round go through without a fatal error.
C5_BiddingCompletes ==
    [][(/\ Stepped("Bid")
        /\ call'[2] = Bidder
        /\ ~HasAttr(Player[Bidder].bid)
        /\ ~RuleViolation(call'[2], call'[3]))
          => ret' = "True"]_vars

\* C6: postRound moves the dealer one seat left and makes the player left of
\* the new dealer both the leader and the first bidder.
C6_SeatAssignment ==
    [][Stepped("postRound") =>
          /\ Dealer' = (Dealer + 1) % numPlayers
          /\ Leader' = (Dealer' + 1) % numPlayers
          /\ Bidder' = Leader']_vars

\* C7: after Deal every player holds exactly numTricks cards.
C7_DealCounts ==
    IsCall("Deal") => \A p \in DOMAIN Player : Len(Player[p].hand) = numTricks

\* C8: in every round of the schedule one card of the 52 is left for the trump
\* after numPlayers * trickCount cards are dealt, and Deal reveals it.
C8_TrumpAvailable ==
    /\ \A r \in 1..(2 * maxTricks - 1) : numPlayers * Schedule(maxTricks, r) < 52
    /\ IsCall("Deal") => (ret = "None" /\ HasAttr(TrumpCard) /\ HasAttr(trump))

AtMostOne(flags) == Cardinality({s \in Suits : flags[s]}) <= 1

\* "a beats b" as the rules state it.
Beats(a, b) ==
    \/ a.Suit = b.Suit /\ a.Rank > b.Rank
    \/ a.Suit # b.Suit /\ suitTrump[a.Suit]
    \/ a.Suit # b.Suit /\ ~suitTrump[a.Suit] /\ ~suitTrump[b.Suit] /\ suitLed[a.Suit]

\* C10: with at most one trump suit and at most one led suit, the comparison
\* returns True exactly when the rules say a beats b, and False otherwise.
C10_Precedence ==
    (IsCall("__gt__") /\ AtMostOne(suitTrump) /\ AtMostOne(suitLed))
        => ret = (IF Beats(cmpSelf[1], cmpOther[1]) THEN "True" ELSE "False")

\* A led-suit card has beaten a card of a suit that is neither led nor trump,
\* while another suit is trump.
C10_Witness ==
    /\ IsCall("__gt__")
    /\ ret = "True"
    /\ cmpSelf[1].Suit # cmpOther[1].Suit
    /\ suitLed[cmpSelf[1].Suit] /\ ~suitTrump[cmpSelf[1].Suit]
    /\ ~suitLed[cmpOther[1].Suit] /\ ~suitTrump[cmpOther[1].Suit]
    /\ Cardinality({s \in Suits : suitTrump[s]}) = 1
    /\ AtMostOne(suitLed)

\* C12: with at most one trump suit and at most one led suit, "a beats b" and
\* "b beats a" are never both true; in particular no card beats itself.
C12_Antisymmetric ==
    (IsCall("__gt__") /\ AtMostOne(suitTrump) /\ AtMostOne(suitLed))
        => ~(ret = "True" /\ CardGt(cmpOther[1], cmpSelf[1]) = "True")

\* A trump card has beaten a card of another suit, which does not beat it back.
C12_Witness ==
    /\ IsCall("__gt__")
    /\ AtMostOne(suitTrump) /\ AtMostOne(suitLed)
    /\ cmpSelf[1].Suit # cmpOther[1].Suit
    /\ suitTrump[cmpSelf[1].Suit]
    /\ ret = "True"
    /\ CardGt(cmpOther[1], cmpSelf[1]) = "False"

TrickComplete == \A p \in DOMAIN currentTrick : currentTrick[p] # None

\* The players whose card beats the card of every other player of the trick.
Winners ==
    {p \in DOMAIN currentTrick :
        \A q \in DOMAIN currentTrick \ {p} :
            CardGt(Deck[currentTrick[p]], Deck[currentTrick[q]]) = "True"}

\* Every order in which the players of the trick can be visited.
Orders ==
    {o \in [1..numPlayers -> DOMAIN currentTrick] :
        \A a, b \in 1..numPlayers : a # b => o[a] # o[b]}

RECURSIVE FoldFrom(_, _, _)
\* The best-so-far player after visiting o[k..], starting from best.
FoldFrom(o, k, best) ==
    IF k > Len(o) THEN best
    ELSE FoldFrom(o, k + 1,
            IF CardGt(Deck[currentTrick[o[k]]], Deck[currentTrick[best]]) = "True"
            THEN o[k] ELSE best)

\* C11: in a completed trick exactly one card beats every other card, and a
\* fold that keeps the best card so far ends on it whatever the order.
C11_UniqueWinner ==
    (IsCall("trick") \/ (IsCall("__gt__") /\ TrickComplete))
        => /\ Cardinality(Winners) = 1
           /\ \A o \in Orders : FoldFrom(o, 2, o[1]) \in Winners

\* A trick with a trump card, a led-suit card of another suit and no third
\* suit needed: the winner's card is the trump and has just beaten the led card.
C11_Witness ==
    /\ IsCall("__gt__") /\ TrickComplete
    /\ ret = "True"
    /\ ledSuit[1] # trump[1]
    /\ cmpSelf[1].Suit = trump[1]
    /\ cmpOther[1].Suit = ledSuit[1]
    /\ \E p \in Winners : Deck[currentTrick[p]] = cmpSelf[1]
    /\ \E q \in DOMAIN currentTrick : Deck[currentTrick[q]].Suit \notin {trump[1], ledSuit[1]}

RECURSIVE SumSeq(_)
SumSeq(s) == IF s = <<>> THEN 0 ELSE Head(s) + SumSeq(Tail(s))

\* The cumulative score of player p, and the tricks p has won in the round.
Score(players, p) == SumSeq(players[p].points)
TricksWon(p) == Len(Player[p].tricks)
Award(p) == IF TricksWon(p) = BidOf(p) THEN 10 + TricksWon(p) ELSE TricksWon(p)

\* Every bid is placed and every hand is played out.
RoundOver == AllHaveBid /\ \A p \in DOMAIN Player : Player[p].hand = <<>>

C15_OutOfTurnBidFails ==
    [][(Stepped("Bid") /\ call'[2] # Bidder)
          => (ret' = "AssertionError" /\ UNCHANGED <<gameVars, suitVars>>)]_vars

\* The call Move(player, card_index) breaks the protocol in the current state.
ProtocolViolation(player, card_index) ==
    \/ player # Current
    \/ Player[player].hand = <<>>
    \/ ~(card_index \in 0..(Len(Player[player].hand) - 1))

HoldsSuit(hand, s) == \E k \in 1..Len(hand) : Deck[hand[k]].Suit = s

\* The call Move(player, card_index) is a legal turn of a player other than the
\* leader, who picks a card off the led suit while holding a card of it.
FollowSuitViolation(player, card_index) ==
    /\ ~ProtocolViolation(player, card_index)
    /\ player # Leader
    /\ HasAttr(ledSuit)
    /\ Deck[Player[player].hand[card_index + 1]].Suit # ledSuit[1]
    /\ HoldsSuit(Player[player].hand, ledSuit[1])

Fatal(r) == r \notin {"True", "False", "None"}

\* The round's Deal has completed: the trump card is turned up.
Dealt == HasAttr(TrumpCard)

\* C21: a Bid before the round's Deal or after every player has bid, a Move
\* before every player has a bid, and a postRound before every hand is empty
\* each abort with a fatal error.
C21_PhaseOrder ==
    [][/\ \A player \in PlayerArgs, bid \in BidArgs :
             (Bid(player, bid) /\ (~Dealt \/ AllHaveBid)) => Fatal(ret')
       /\ \A player \in PlayerArgs, card_index \in IndexArgs :
             (Move(player, card_index) /\ ~AllHaveBid) => Fatal(ret')
       /\ (postRound /\ \E p \in DOMAIN Player : Player[p].hand # <<>>) => Fatal(ret')]_vars

\* C22: after postRound every player's hand is empty and no player carries a
\* bid of the round that ended.
C22_RoundReset ==
    [][postRound => \A p \in DOMAIN Player :
                       Player'[p].hand = <<>> /\ ~HasAttr(Player'[p].bid)]_vars

\* No player has a play recorded in the current trick.
TrickEmpty == \A p \in DOMAIN currentTrick : currentTrick[p] = None

\* C23: in a new game and after a postRound that went through, the current
\* trick records "not yet played" for every player.
C23_TrickStartsEmpty ==
    (IsCall("__init__") \/ (IsCall("postRound") /\ ~Fatal(ret))) => TrickEmpty

=============================================================================
